---- MODULE Spec2Model ----
(***************************************************************************)
(* A model of the superlocalmemory MCP server: the MemoryDB vector store   *)
(* (src/README.md holds its source, lines 256-628), the embedding          *)
(* providers (src/src/embeddings) and the tool layer (src/src/server.ts).  *)
(*                                                                         *)
(* Numbers.  Embedding components are small integers, so JSON text and     *)
(* IEEE arithmetic are exact on them.  A cosine c = dot / (|a| |b|) is     *)
(* kept as the rational sgn(c) * c^2 = sgn(dot) * dot^2 / (|a|^2 |b|^2),   *)
(* an order preserving image of c, so every comparison the code makes      *)
(* between two scores, or between a score and a threshold, is decided      *)
(* exactly as over the reals.  The rounding of Math.sqrt is not modelled.  *)
(***************************************************************************)
EXTENDS Integers, Sequences, FiniteSets, TLC

VARIABLES
    rows,        \* the memories table of the dataset file, in rowid order
    metadata,    \* the metadata table: capture_count and profile rows
    db,          \* the MemoryDB instance of the running process
    dimension,   \* MemoryDB.dimension of that instance
    provider,    \* the embedding provider createEmbeddings chose
    now,         \* the wall clock Date.now() reads
    nextId,      \* ids 1..nextId-1 are the ones randomUUID has returned
    last,        \* the last call: its arguments, its outcome, the rows before it
    inflight,    \* the memory_store handlers in flight, each at its await
    pipeline     \* TransformersEmbeddings.pipeline: the model, once loaded

vars == <<rows, metadata, db, dimension, provider, now, nextId, last, inflight,
          pipeline>>

---------------------------------------------------------------------------
(* Bounds of the model.                                                    *)

\* The dimension of the in-process provider (384 in the source), scaled.
TransformersDimension == 2
\* The dimension of the remote provider (1536 in the source), scaled.
OpenAIDimension == 3
\* How many ids randomUUID hands out in one behaviour.
MaxIds == 2
\* The last value of the clock; it stands still from there on.
MaxClock == 1
\* How many indexable files a directory given to memory_index holds.
MaxFiles == 2
\* The largest capture_count a behaviour reaches.
MaxCaptures == 3
\* How many memory_store calls are in flight together.
MaxInFlight == 2
\* The bits of the significand of a number (53 in the source), scaled.
MantissaBits == 6
\* The largest component of the vectors cosineSimilarity is tried on.
MaxComponent == 4

---------------------------------------------------------------------------
(* Values.                                                                 *)

\* JavaScript's undefined and SQL's NULL, as values of an optional string.
Undefined == "<undefined>"
Null == "<null>"
\* An optional value is a sequence of no or one element.
None == <<>>
Some(x) == <<x>>

Dims == {TransformersDimension, OpenAIDimension}

\* Four embeddings of each length d >= 2: (1,0,..), (4,1,0,..), (4,-1,0,..)
\* and the zero vector.  cos((4,1),(1,0)) = 0.970, cos((4,1),(4,-1)) = 0.882.
VecE(d) == [i \in 1..d |-> IF i = 1 THEN 1 ELSE 0]
VecA(d) == [i \in 1..d |-> IF i = 1 THEN 4 ELSE IF i = 2 THEN 1 ELSE 0]
VecB(d) == [i \in 1..d |-> IF i = 1 THEN 4 ELSE IF i = 2 THEN -1 ELSE 0]
VecZ(d) == [i \in 1..d |-> 0]
Vecs(d) == {VecE(d), VecA(d), VecB(d), VecZ(d)}

\* Rationals p/q, q > 0, as <<p, q>>: the thresholds the callers pass.
DefaultDedupeThreshold == <<19, 20>>
IndexDedupeThreshold == <<49, 50>>
DefaultMinScore == <<3, 10>>
DefaultForgetThreshold == <<4, 5>>
MinScores == {DefaultMinScore, <<0, 1>>}
DefaultLimit == 5
Limits == {-1, 1, DefaultLimit}

---------------------------------------------------------------------------
(* JSON text.                                                              *)

\* JSON.stringify of an array of finite numbers or of strings.
JSONStringify(v) == [kind |-> "array", items |-> v]
\* A text that is not JSON, such as a truncated array.
InvalidJSON == [kind |-> "invalid"]
\* Whether JSON.parse of the text returns (it throws a SyntaxError otherwise).
JSONParses(text) == text.kind = "array"
JSONParse(text) == text.items

---------------------------------------------------------------------------
(* The similarity function.                                                *)

RECURSIVE DotUpTo(_, _, _)
DotUpTo(a, b, i) == IF i = 0 THEN 0 ELSE DotUpTo(a, b, i - 1) + a[i] * b[i]
Dot(a, b) == DotUpTo(a, b, Len(a))

Sgn(x) == IF x > 0 THEN 1 ELSE IF x < 0 THEN -1 ELSE 0

\* A score: n/d with d > 0, the image sgn(c) * c^2 of a cosine c.
ScoreOf(p) == [n |-> Sgn(p[1]) * p[1] * p[1], d |-> p[2] * p[2]]
ScoreGE(s, t) == s.n * t.d >= t.n * s.d
ScoreEQ(s, t) == s.n * t.d = t.n * s.d
ScoreOne == [n |-> 1, d |-> 1]
ScoreZero == [n |-> 0, d |-> 1]

\* The length test throwing only when the first vector is the longer one.
CosineThrowsLonger(a, b) == Len(a) > Len(b)

\* cosineSimilarity throws on vectors of unequal length.
CosineThrows(a, b) == Len(a) # Len(b)

\* cosineSimilarity with the two square roots left out of the denominator.
CosineNoSqrt(a, b) ==
    LET dotProduct == Dot(a, b)
        normA == Dot(a, a)
        normB == Dot(b, b)
    IN  IF normA * normB = 0
        THEN ScoreZero
        ELSE [n |-> Sgn(dotProduct) * dotProduct * dotProduct,
              d |-> normA * normB * normA * normB]

\* cosineSimilarity of two vectors of equal length: 0 when the denominator is 0.
CosineSimilarity(a, b) ==
    LET dotProduct == Dot(a, b)
        normA == Dot(a, a)
        normB == Dot(b, b)
    IN  IF normA * normB = 0
        THEN ScoreZero
        ELSE [n |-> Sgn(dotProduct) * dotProduct * dotProduct, d |-> normA * normB]

---------------------------------------------------------------------------
(* cosineSimilarity as the machine computes it.  A number of the source is *)
(* a binary floating-point number: a significand of MantissaBits bits and  *)
(* an exponent, here [m, e] for m * 2^e with 2^(MantissaBits-1) <= m <     *)
(* 2^MantissaBits, or Zero.  Math.sqrt, * and / return the number nearest  *)
(* to the exact result, the even one of two equally near.  The sums of the *)
(* loop are exact as long as they stay below 2^MantissaBits.               *)

RECURSIVE Pow2(_)
Pow2(k) == IF k = 0 THEN 1 ELSE 2 * Pow2(k - 1)

Zero == [m |-> 0, e |-> 0]

\* m * 2^e with m of at most MantissaBits + 1 bits, brought back into range.
Normal(m, e) == IF m = Pow2(MantissaBits) THEN [m |-> m \div 2, e |-> e + 1]
                ELSE [m |-> m, e |-> e]

\* Math.sqrt(n) for an integer 0 <= n < 4^MantissaBits.
RoundSqrt(n) ==
    IF n = 0 THEN Zero
    ELSE LET k == CHOOSE k \in 0..MantissaBits :
                     /\ n * Pow2(2 * k) >= Pow2(2 * MantissaBits - 2)
                     /\ \A j \in 0..(k - 1) :
                           n * Pow2(2 * j) < Pow2(2 * MantissaBits - 2)
             scaled == n * Pow2(2 * k)
             m == CHOOSE m \in Pow2(MantissaBits - 1)..(Pow2(MantissaBits) - 1) :
                     m * m <= scaled /\ scaled < (m + 1) * (m + 1)
         IN  Normal(IF scaled > m * m + m THEN m + 1 ELSE m, 0 - k)

\* x * y for two numbers.
RoundProduct(x, y) ==
    IF x = Zero \/ y = Zero THEN Zero
    ELSE LET exact == x.m * y.m
             s == IF exact >= Pow2(2 * MantissaBits - 1)
                  THEN MantissaBits ELSE MantissaBits - 1
             q == exact \div Pow2(s)
             r == exact % Pow2(s)
             up == 2 * r > Pow2(s) \/ (2 * r = Pow2(s) /\ q % 2 = 1)
         IN  Normal(IF up THEN q + 1 ELSE q, x.e + y.e + s)

\* d / y for an integer 0 < d < 2^MantissaBits and a number y # Zero.
RoundQuotient(d, y) ==
    LET k == CHOOSE k \in 0..(2 * MantissaBits) :
                /\ d * Pow2(k) >= Pow2(MantissaBits - 1) * y.m
                /\ \A j \in 0..(k - 1) : d * Pow2(j) < Pow2(MantissaBits - 1) * y.m
        q == (d * Pow2(k)) \div y.m
        r == (d * Pow2(k)) % y.m
        up == 2 * r > y.m \/ (2 * r = y.m /\ q % 2 = 1)
    IN  Normal(IF up THEN q + 1 ELSE q, 0 - k - y.e)

\* The number x, with the sign sgn, as a fraction n/d.
Fraction(sgn, x) ==
    IF x.e >= 0 THEN [n |-> sgn * x.m * Pow2(x.e), d |-> 1]
    ELSE [n |-> sgn * x.m, d |-> Pow2(0 - x.e)]

\* cosineSimilarity of two vectors of equal length, as computed: the value
\* returned, as a fraction.
CosineRounded(a, b) ==
    LET dotProduct == Dot(a, b)
        denom == RoundProduct(RoundSqrt(Dot(a, a)), RoundSqrt(Dot(b, b)))
        abs == IF dotProduct < 0 THEN 0 - dotProduct ELSE dotProduct
    IN  IF denom = Zero \/ dotProduct = 0 THEN [n |-> 0, d |-> 1]
        ELSE Fraction(Sgn(dotProduct), RoundQuotient(abs, denom))

---------------------------------------------------------------------------
(* The dataset: rows of the memories table.                                *)

\* The row store() writes: category || null, tags and embedding as JSON text.
RowOf(id, payload, embedding, created_at) ==
    [ id |-> id,
      content |-> payload.content,
      embedding |-> JSONStringify(embedding),
      tags |-> JSONStringify(payload.tags),
      category |-> IF payload.category \in {Undefined, ""} THEN Null
                   ELSE payload.category,
      source |-> payload.source,
      created_at |-> created_at ]

\* The MemoryEntry vectorSearch builds from a row: row.category || undefined.
EntryOf(row) ==
    [ id |-> row.id,
      content |-> row.content,
      embedding |-> row.embedding,
      tags |-> JSONParse(row.tags),
      category |-> IF row.category \in {Null, ""} THEN Undefined ELSE row.category,
      source |-> row.source,
      created_at |-> row.created_at ]

Ids(rws) == {rws[i].id : i \in 1..Len(rws)}

---------------------------------------------------------------------------
(* vectorSearch.                                                           *)

Min(a, b) == IF a < b THEN a ELSE b
Max(a, b) == IF a > b THEN a ELSE b

\* The rows whose embedding text parses; the others are skipped with a warning.
Decodable(row) == JSONParses(row.embedding)

\* The loop calls cosineSimilarity on every decodable row: it throws at the first
\* one whose length differs from the query's, before anything is returned.
SearchThrows(rws, queryEmbedding) ==
    \E i \in 1..Len(rws) :
        /\ Decodable(rws[i])
        /\ CosineThrows(queryEmbedding, JSONParse(rws[i].embedding))

Scored(rws, queryEmbedding) ==
    [ i \in 1..Len(rws) |->
        [ entry |-> EntryOf(rws[i]),
          decodable |-> Decodable(rws[i]),
          score |-> IF Decodable(rws[i])
                    THEN CosineSimilarity(queryEmbedding, JSONParse(rws[i].embedding))
                    ELSE ScoreZero ] ]

\* The loop without its try/catch and continue: a row whose embedding does not
\* parse is pushed like the others, with the score it is given.
PushedUndecoded(rws, queryEmbedding, minScore) ==
    LET kept == SelectSeq(Scored(rws, queryEmbedding),
                          LAMBDA r : ScoreGE(r.score, ScoreOf(minScore)))
    IN  [i \in 1..Len(kept) |-> [entry |-> kept[i].entry, score |-> kept[i].score]]

\* results.push with score > minScore in place of score >= minScore.
PushedStrictly(rws, queryEmbedding, minScore) ==
    LET kept == SelectSeq(Scored(rws, queryEmbedding),
                          LAMBDA r : r.decodable
                                     /\ ~ScoreGE(ScoreOf(minScore), r.score))
    IN  [i \in 1..Len(kept) |-> [entry |-> kept[i].entry, score |-> kept[i].score]]

\* results.push for every row with score >= minScore, in row order.
Pushed(rws, queryEmbedding, minScore) ==
    LET kept == SelectSeq(Scored(rws, queryEmbedding),
                          LAMBDA r : r.decodable /\ ScoreGE(r.score, ScoreOf(minScore)))
    IN  [i \in 1..Len(kept) |-> [entry |-> kept[i].entry, score |-> kept[i].score]]

\* The results left in the order in which they were pushed.
InsertAtEnd(sorted, x) == Append(sorted, x)

\* Array.prototype.sort with (a, b) => b.score - a.score: stable, descending.
InsertByScore(sorted, x) ==
    LET k == Cardinality({i \in 1..Len(sorted) : ScoreGE(sorted[i].score, x.score)})
    IN  SubSeq(sorted, 1, k) \o <<x>> \o SubSeq(sorted, k + 1, Len(sorted))

RECURSIVE SortByScoreDesc(_)
SortByScoreDesc(s) ==
    IF Len(s) = 0 THEN <<>>
    ELSE InsertByScore(SortByScoreDesc(SubSeq(s, 1, Len(s) - 1)), s[Len(s)])

\* results.slice(0, limit - 1): one result short.
SliceOffByOne(s, limit) ==
    SubSeq(s, 1, IF limit - 1 < 0 THEN Max(Len(s) + limit - 1, 0)
                 ELSE Min(limit - 1, Len(s)))

\* results.slice(0, limit): a negative limit counts from the end.
Slice(s, limit) ==
    SubSeq(s, 1, IF limit < 0 THEN Max(Len(s) + limit, 0) ELSE Min(limit, Len(s)))

\* The value vectorSearch returns when it does not throw.
VectorSearch(rws, queryEmbedding, limit, minScore) ==
    Slice(SortByScoreDesc(Pushed(rws, queryEmbedding, minScore)), limit)

\* findSimilar: the entry of the first result of a search for one, or none.
FindSimilar(rws, embedding, threshold) ==
    VectorSearch(rws, embedding, 1, threshold)

---------------------------------------------------------------------------
(* Opening a dataset: the constructor, initTables and validateDimension.   *)

NoError == [kind |-> "none"]

\* initTables writing "0" whether or not the capture_count row exists.
InitTablesResets(meta) == [meta EXCEPT !.capture_count = Some(0)]

\* initTables: the capture_count row is inserted with "0" unless it exists.
InitTables(meta) ==
    IF meta.capture_count = None THEN [meta EXCEPT !.capture_count = Some(0)]
    ELSE meta

\* validateDimension with the comparison of the two lengths left out.
ValidateDimensionNeverThrows(rws, configured) == FALSE

\* validateDimension reads the first row only (LIMIT 1) and lets a JSON parse
\* error of that row pass.
ValidateDimensionThrows(rws, configured) ==
    /\ Len(rws) > 0
    /\ JSONParses(rws[1].embedding)
    /\ Len(JSONParse(rws[1].embedding)) # configured

DimensionMismatch(rws, configured) ==
    [ kind |-> "Database dimension mismatch",
      found |-> Len(JSONParse(rws[1].embedding)),
      expected |-> configured ]

---------------------------------------------------------------------------
(* store.                                                                  *)

NoEntry == [id |-> None]

\* The UPDATE of the matched row: every column but id is overwritten.
StoreUpdate(rws, id, payload, embedding, created_at) ==
    [ i \in 1..Len(rws) |->
        IF rws[i].id = id THEN RowOf(id, payload, embedding, created_at)
        ELSE rws[i] ]

\* An INSERT that numbers the new row by the count of rows instead of taking
\* the id randomUUID returned.
StoreInsertCounted(rws, id, payload, embedding, created_at) ==
    Append(rws, RowOf(Len(rws) + 1, payload, embedding, created_at))

\* The INSERT of a new row.
StoreInsert(rws, id, payload, embedding, created_at) ==
    Append(rws, RowOf(id, payload, embedding, created_at))

\* The entry store() returns: the options as passed, not as persisted.
ReturnedEntry(id, payload, embedding, created_at) ==
    [ id |-> Some(id),
      content |-> payload.content,
      embedding |-> JSONStringify(embedding),
      tags |-> payload.tags,
      category |-> payload.category,
      source |-> payload.source,
      created_at |-> created_at ]

\* store(content, embedding, options) on rows rws: newId is what randomUUID
\* returns, t1 and t2 what the first and the second Date.now() return.
StoreOutcome(rws, payload, embedding, threshold, newId, t1, t2) ==
    IF SearchThrows(rws, embedding)
    THEN [ ok |-> FALSE, error |-> [kind |-> "Vector dimension mismatch"],
           rows |-> rws, entry |-> NoEntry, isDuplicate |-> FALSE,
           updatedId |-> None ]
    ELSE LET existing == FindSimilar(rws, embedding, threshold)
         IN  IF Len(existing) > 0
             THEN [ ok |-> TRUE, error |-> NoError,
                    rows |-> StoreUpdate(rws, existing[1].entry.id, payload,
                                         embedding, t1),
                    entry |-> ReturnedEntry(existing[1].entry.id, payload,
                                            embedding, t2),
                    isDuplicate |-> TRUE,
                    updatedId |-> Some(existing[1].entry.id) ]
             ELSE [ ok |-> TRUE, error |-> NoError,
                    rows |-> StoreInsert(rws, newId, payload, embedding, t1),
                    entry |-> ReturnedEntry(newId, payload, embedding, t1),
                    isDuplicate |-> FALSE,
                    updatedId |-> None ]

\* Whether store() takes the update path, where Date.now() is read twice.
StoreUpdates(rws, embedding, threshold) ==
    /\ ~SearchThrows(rws, embedding)
    /\ Len(FindSimilar(rws, embedding, threshold)) > 0

\* DELETE FROM memories, with the WHERE clause left out.
DeleteRowsAll(rws, id) == SelectSeq(rws, LAMBDA r : FALSE)

\* delete(id): DELETE FROM memories WHERE id = ?
DeleteRow(rws, id) == SelectSeq(rws, LAMBDA r : r.id # id)

\* The loop of deleteByQuery leaving before its last delete.
DeleteAllButLast(rws, matches) ==
    SelectSeq(rws, LAMBDA r : \A k \in 1..(Len(matches) - 1) : matches[k].entry.id # r.id)

\* The loop of deleteByQuery leaving after its first delete.
DeleteFirstOnly(rws, matches) ==
    IF Len(matches) = 0 THEN rws ELSE DeleteRow(rws, matches[1].entry.id)

\* deleteByQuery: delete(match.entry.id) for every match, in order.
RECURSIVE DeleteAll(_, _)
DeleteAll(rws, matches) ==
    IF Len(matches) = 0 THEN rws
    ELSE DeleteAll(DeleteRow(rws, matches[1].entry.id), Tail(matches))

\* The result cap deleteByQuery passes to vectorSearch (100 in the source),
\* scaled.
DeleteByQueryLimit == 2

---------------------------------------------------------------------------
(* The calls, as the model records them.                                   *)
(*                                                                         *)
(* last holds the call that has just returned or thrown, with the rows it  *)
(* found.  The caller then either takes the outcome (Return, which leaves  *)
(* the dataset as it is) or makes the very same call once more; after      *)
(* Return every call is possible.  So every sequence of calls is a         *)
(* behaviour, and a state shows one call, or one call and its repetition.  *)

Ticks(t) == {t} \cup (IF t < MaxClock THEN {t + 1} ELSE {})

NoResult == [none |-> TRUE]
Idle == [op |-> "idle"]

\* The calls in flight, numbered in the order of their arrival, and the handler
\* of a call that has not arrived.
Calls == 1..MaxInFlight
NotCalled == [pc |-> "none"]
NoCalls == [h \in Calls |-> NotCalled]

\* this.pipeline of a new TransformersEmbeddings: null.
NotLoaded == "null"

Repeats(op, args) == last.op = op /\ last.args = args /\ last.ok
Ready(op, args) == last.op = "idle" \/ Repeats(op, args)

\* The record of a call: pre and at are the rows and the clock it found; repeat says that the call before it was the same call
\* with the same arguments and returned; prev is then what that call returned.
Call(op, args, ok, error, result) ==
    [ op |-> op, args |-> args, ok |-> ok, error |-> error,
      result |-> result, pre |-> rows, at |-> now,
      repeat |-> Repeats(op, args),
      prev |-> IF Repeats(op, args) THEN last.result ELSE NoResult ]

Return ==
    /\ last.op # "idle"
    /\ last' = Idle
    /\ UNCHANGED <<rows, metadata, db, dimension, provider, now, nextId, inflight, pipeline>>

---------------------------------------------------------------------------
(* MemoryDB, called directly: the operations of an open instance.          *)

StoreArgs(payload, embedding, threshold) ==
    [payload |-> payload, embedding |-> embedding, threshold |-> threshold]

Store(payload, embedding, threshold) ==
    /\ db = "open"
    /\ Ready("store", StoreArgs(payload, embedding, threshold))
    /\ \E t1 \in Ticks(now) :
        \E t2 \in IF StoreUpdates(rows, embedding, threshold)
                  THEN Ticks(t1) ELSE {t1} :
        LET out == StoreOutcome(rows, payload, embedding, threshold, nextId, t1, t2)
            minted == out.ok /\ ~out.isDuplicate
        IN  /\ minted => nextId <= MaxIds
            /\ rows' = out.rows
            /\ nextId' = IF minted THEN nextId + 1 ELSE nextId
            /\ now' = t2
            /\ last' = Call("store", StoreArgs(payload, embedding, threshold),
                            out.ok, out.error,
                            [entry |-> out.entry, isDuplicate |-> out.isDuplicate,
                             updatedId |-> out.updatedId])
    /\ UNCHANGED <<metadata, db, dimension, provider, inflight, pipeline>>

SearchArgs(queryEmbedding, limit, minScore) ==
    [queryEmbedding |-> queryEmbedding, limit |-> limit, minScore |-> minScore]

Search(queryEmbedding, limit, minScore) ==
    /\ db = "open"
    /\ Ready("vectorSearch", SearchArgs(queryEmbedding, limit, minScore))
    /\ last' = IF SearchThrows(rows, queryEmbedding)
               THEN Call("vectorSearch", SearchArgs(queryEmbedding, limit, minScore),
                         FALSE, [kind |-> "Vector dimension mismatch"], NoResult)
               ELSE Call("vectorSearch", SearchArgs(queryEmbedding, limit, minScore),
                         TRUE, NoError,
                         [results |-> VectorSearch(rows, queryEmbedding, limit,
                                                   minScore)])
    /\ UNCHANGED <<rows, metadata, db, dimension, provider, now, nextId, inflight, pipeline>>

Delete(id) ==
    /\ db = "open"
    /\ Ready("delete", [id |-> id])
    /\ rows' = DeleteRow(rows, id)
    /\ last' = Call("delete", [id |-> id], TRUE, NoError,
                    [changes |-> Len(rows) - Len(DeleteRow(rows, id))])
    /\ UNCHANGED <<metadata, db, dimension, provider, now, nextId, inflight, pipeline>>

QueryArgs(queryEmbedding, threshold) ==
    [queryEmbedding |-> queryEmbedding, threshold |-> threshold]

DeleteByQuery(queryEmbedding, threshold) ==
    /\ db = "open"
    /\ Ready("deleteByQuery", QueryArgs(queryEmbedding, threshold))
    /\ IF SearchThrows(rows, queryEmbedding)
       THEN /\ rows' = rows
            /\ last' = Call("deleteByQuery", QueryArgs(queryEmbedding, threshold),
                            FALSE, [kind |-> "Vector dimension mismatch"], NoResult)
       ELSE LET matches == VectorSearch(rows, queryEmbedding, DeleteByQueryLimit,
                                        threshold)
            IN  /\ rows' = DeleteAll(rows, matches)
                /\ last' = Call("deleteByQuery", QueryArgs(queryEmbedding, threshold),
                                TRUE, NoError, [deleted |-> Len(matches)])
    /\ UNCHANGED <<metadata, db, dimension, provider, now, nextId, inflight, pipeline>>

\* incrementCaptureCount: an UPDATE of the capture_count row, if there is one.
IncrementCaptureCount(meta) ==
    IF meta.capture_count = None THEN meta
    ELSE [meta EXCEPT !.capture_count = Some(meta.capture_count[1] + 1)]

\* Whether a MemoryDB instance in state d holds an open database handle: the
\* constructor opens it before initTables and validateDimension and has no
\* catch that closes it; only close() releases it.
HandleHeld(d) == d \in {"open", "failed"}

\* new MemoryDB(dbPath, configured): the file is created when it is not there,
\* initTables runs, and validateDimension may throw.
Open(configured) ==
    /\ db \in {"none", "failed", "closed"}
    /\ last.op = "idle"
    /\ dimension' = configured
    /\ metadata' = InitTables(metadata)
    /\ IF ValidateDimensionThrows(rows, configured)
       THEN /\ db' = "failed"
            /\ last' = Call("open", [dimension |-> configured], FALSE,
                            DimensionMismatch(rows, configured), NoResult)
       ELSE /\ db' = "open"
            /\ last' = Call("open", [dimension |-> configured], TRUE, NoError,
                            NoResult)
    /\ UNCHANGED <<rows, provider, now, nextId, inflight, pipeline>>

\* close()
Close ==
    /\ db = "open"
    /\ last.op = "idle"
    /\ db' = "closed"
    /\ last' = Call("close", <<>>, TRUE, NoError, NoResult)
    /\ UNCHANGED <<rows, metadata, dimension, provider, now, nextId, inflight, pipeline>>

\* stats() reporting a captureCount of 0 whatever the row holds.
CaptureCountUnread(meta) == 0

\* captureCount as stats() reads it: parseInt of the row's value, 0 without row.
CaptureCount(meta) ==
    IF meta.capture_count = None THEN 0 ELSE meta.capture_count[1]

\* stats()
Stats ==
    /\ db = "open"
    /\ Ready("stats", <<>>)
    /\ last' = Call("stats", <<>>, TRUE, NoError,
                    [totalMemories |-> Len(rows),
                     captureCount |-> CaptureCount(metadata),
                     dimension |-> dimension])
    /\ UNCHANGED <<rows, metadata, db, dimension, provider, now, nextId, inflight, pipeline>>

\* getProfile(): the value of the profile row, null without one.
GetProfile ==
    /\ db = "open"
    /\ Ready("getProfile", <<>>)
    /\ last' = Call("getProfile", <<>>, TRUE, NoError, [profile |-> metadata.profile])
    /\ UNCHANGED <<rows, metadata, db, dimension, provider, now, nextId, inflight, pipeline>>

\* The limit the server passes to getAllContent, and the default of the method.
ServerRecentLimit == 20
DefaultRecentLimit == 20

\* The query without its ORDER BY clause: the rows in the order of the table.
RowidOrders(rws) == { [i \in 1..Len(rws) |-> i] }

\* The orders ORDER BY created_at DESC may return the rows in: SQL leaves the
\* order of rows with equal created_at open.
RecentOrders(rws) ==
    { f \in [1..Len(rws) -> 1..Len(rws)] :
        /\ \A i, j \in 1..Len(rws) : i # j => f[i] # f[j]
        /\ \A i, j \in 1..Len(rws) :
              i < j => rws[f[i]].created_at >= rws[f[j]].created_at }

\* LIMIT ?: a negative value means no limit.
SqlLimit(s, limit) == SubSeq(s, 1, IF limit < 0 THEN Len(s) ELSE Min(limit, Len(s)))

\* getAllContent(limit)
GetAllContent(limit) ==
    /\ db = "open"
    /\ Ready("getAllContent", [limit |-> limit])
    /\ \E f \in RecentOrders(rows) :
          last' = Call("getAllContent", [limit |-> limit], TRUE, NoError,
                       [contents |-> SqlLimit([i \in 1..Len(rows) |-> rows[f[i]].content],
                                              limit)])
    /\ UNCHANGED <<rows, metadata, db, dimension, provider, now, nextId, inflight, pipeline>>

\* incrementCaptureCount()
IncrementCaptureCountCall ==
    /\ db = "open"
    /\ Ready("incrementCaptureCount", <<>>)
    /\ metadata.capture_count # Some(MaxCaptures)
    /\ metadata' = IncrementCaptureCount(metadata)
    /\ last' = Call("incrementCaptureCount", <<>>, TRUE, NoError, NoResult)
    /\ UNCHANGED <<rows, db, dimension, provider, now, nextId, inflight, pipeline>>

\* A MemoryDB just constructed with the in-process provider's dimension on a
\* dataset file that did not exist.
InitDB ==
    /\ rows = <<>>
    /\ metadata = [capture_count |-> Some(0), profile |-> None]
    /\ db = "open"
    /\ dimension = TransformersDimension
    /\ provider = "none"
    /\ now = 0
    /\ nextId = 1
    /\ last = Idle
    /\ inflight = NoCalls
    /\ pipeline = NotLoaded

---------------------------------------------------------------------------
(* Specifications of MemoryDB called directly.  Each draws the arguments   *)
(* of its calls from the sets its claims are about.                        *)

\* An embedding whose length is not the configured dimension.
WrongLength == VecE(OpenAIDimension)

PayloadPlain == [content |-> "a", tags |-> <<>>, category |-> Undefined, source |-> ""]
PayloadFull == [content |-> "b", tags |-> <<"t">>, category |-> "c", source |-> "s"]
PayloadBlank == [content |-> "", tags |-> <<>>, category |-> Undefined, source |-> ""]
PayloadEmptyCategory == [content |-> "c", tags |-> <<>>, category |-> "", source |-> ""]

\* store and delete: every option, the default threshold and 1, embeddings
\* of both lengths.
NextStore ==
    \/ \E p \in {PayloadFull, PayloadEmptyCategory},
          e \in {VecE(dimension), VecA(dimension), VecZ(dimension), WrongLength},
          t \in {DefaultDedupeThreshold, <<1, 1>>} : Store(p, e, t)
    \/ \E id \in 1..(MaxIds + 1) : Delete(id)
    \/ Return

SpecStore == InitDB /\ [][NextStore]_vars

\* store and delete with one dedupeThreshold throughout.
NextSameT ==
    \/ \E e \in {VecE(dimension), VecA(dimension), VecB(dimension)} :
          Store(PayloadPlain, e, DefaultDedupeThreshold)
    \/ \E id \in 1..(MaxIds + 1) : Delete(id)
    \/ Return

SpecSameT == InitDB /\ [][NextSameT]_vars

\* vectorSearch with every limit and minScore on the datasets store builds.
NextSearch ==
    \/ \E e \in Vecs(dimension) : Store(PayloadPlain, e, DefaultDedupeThreshold)
    \/ \E q \in Vecs(dimension) \cup {WrongLength}, l \in Limits, m \in MinScores :
          Search(q, l, m)
    \/ \E id \in 1..MaxIds : Delete(id)
    \/ Return

SpecSearch == InitDB /\ [][NextSearch]_vars

\* store with every kind of category (absent, a word, the empty string), each
\* with a content of its own, and the default search.
Payloads == {PayloadPlain, PayloadFull, PayloadEmptyCategory}

NextCategory ==
    \/ \E p \in Payloads, e \in {VecA(dimension), VecB(dimension)} :
          Store(p, e, DefaultDedupeThreshold)
    \/ \E q \in {VecA(dimension), VecB(dimension)} :
          Search(q, DefaultLimit, DefaultMinScore)
    \/ Return

SpecCategory == InitDB /\ [][NextCategory]_vars

\* Something other than this program overwrites the embedding column of a row
\* with text that is not JSON (a truncated write, a manual edit).
Corrupt(id) ==
    /\ last.op = "idle"
    /\ \E i \in 1..Len(rows) :
          /\ rows[i].id = id
          /\ Decodable(rows[i])
          /\ rows' = [rows EXCEPT ![i].embedding = InvalidJSON]
    /\ UNCHANGED <<metadata, db, dimension, provider, now, nextId, last, inflight, pipeline>>

\* store and vectorSearch on datasets in which rows have been corrupted.
NextCorrupt ==
    \/ \E e \in {VecA(dimension), VecB(dimension)} :
          Store(PayloadPlain, e, DefaultDedupeThreshold)
    \/ \E id \in 1..MaxIds : Corrupt(id)
    \/ \E q \in {VecE(dimension), VecA(dimension)}, l \in {1, DefaultLimit},
          m \in MinScores : Search(q, l, m)
    \/ Return

SpecCorrupt == InitDB /\ [][NextCorrupt]_vars

\* deleteByQuery with the default threshold, with 0.95 and with 0, on the
\* datasets store builds.
NextQuery ==
    \/ \E e \in Vecs(dimension) : Store(PayloadPlain, e, DefaultDedupeThreshold)
    \/ \E q \in Vecs(dimension) \cup {WrongLength},
          t \in {DefaultForgetThreshold, DefaultDedupeThreshold, <<0, 1>>} :
          DeleteByQuery(q, t)
    \/ Return

SpecQuery == InitDB /\ [][NextQuery]_vars

---------------------------------------------------------------------------
(* The embedding providers.                                                *)

\* createEmbeddings without the branch on the API key.
CreateEmbeddingsDefault(openaiApiKey) == "transformers"

\* createEmbeddings: OpenAI when an API key is configured, else Transformers.js.
CreateEmbeddings(openaiApiKey) == IF openaiApiKey THEN "openai" ELSE "transformers"

ProviderDimension(p) ==
    IF p = "openai" THEN OpenAIDimension ELSE TransformersDimension

\* What the model or the remote API hands back for a text: an array of some
\* length, or a failure (no client, no network, no model files).
Failure == [fails |-> TRUE]
Raw(v) == [fails |-> FALSE, embedding |-> v]
RawOutputs ==
    {Failure} \cup {Raw(v) : v \in UNION {{VecE(d), VecA(d), VecB(d)} : d \in Dims}}

\* embed() with the check of the array's length left out.
EmbedThrowsUnchecked(p, raw) == raw.fails

\* embed() of either provider: it throws unless the array has the provider's
\* dimension.
EmbedThrows(p, raw) ==
    \/ raw.fails
    \/ Len(raw.embedding) # ProviderDimension(p)

---------------------------------------------------------------------------
(* The server process: startServer, the tool handlers, shutdown.           *)

\* startServer in a new process: the provider is chosen from the environment
\* and the dataset opened with its dimension.  The tool handlers are set only
\* after the constructor has returned.
StartServer(openaiApiKey) ==
    LET chosen == CreateEmbeddings(openaiApiKey)
        configured == ProviderDimension(chosen)
    IN  /\ db \in {"none", "failed", "closed"}
        /\ last.op = "idle"
        /\ provider' = chosen
        /\ dimension' = configured
        /\ metadata' = InitTables(metadata)
        /\ IF ValidateDimensionThrows(rows, configured)
           THEN /\ db' = "failed"
                /\ last' = Call("startServer", [openaiApiKey |-> openaiApiKey],
                                FALSE, DimensionMismatch(rows, configured), NoResult)
           ELSE /\ db' = "open"
                /\ last' = Call("startServer", [openaiApiKey |-> openaiApiKey],
                                TRUE, NoError, NoResult)
        /\ pipeline' = NotLoaded
        /\ UNCHANGED <<rows, now, nextId, inflight>>

\* The memory_store tool: trim, embed, store with the default threshold, count.
MemoryStore(payload, raw) ==
    /\ db = "open"
    /\ Ready("memory_store", [payload |-> payload, raw |-> raw])
    /\ IF payload.content = ""
       THEN /\ last' = Call("memory_store", [payload |-> payload, raw |-> raw],
                            FALSE, [kind |-> "InvalidParams"], NoResult)
            /\ UNCHANGED <<rows, metadata, now, nextId>>
       ELSE IF EmbedThrows(provider, raw)
       THEN /\ last' = Call("memory_store", [payload |-> payload, raw |-> raw],
                            FALSE, [kind |-> "InternalError"], NoResult)
            /\ UNCHANGED <<rows, metadata, now, nextId>>
       ELSE \E t1 \in Ticks(now) :
            \E t2 \in IF StoreUpdates(rows, raw.embedding, DefaultDedupeThreshold)
                      THEN Ticks(t1) ELSE {t1} :
            LET out == StoreOutcome(rows, payload, raw.embedding,
                                    DefaultDedupeThreshold, nextId, t1, t2)
                minted == out.ok /\ ~out.isDuplicate
            IN  /\ minted => nextId <= MaxIds
                /\ out.ok => metadata.capture_count # Some(MaxCaptures)
                /\ rows' = out.rows
                /\ nextId' = IF minted THEN nextId + 1 ELSE nextId
                /\ now' = t2
                /\ metadata' = IF out.ok THEN IncrementCaptureCount(metadata)
                               ELSE metadata
                /\ last' = Call("memory_store", [payload |-> payload, raw |-> raw],
                                out.ok,
                                IF out.ok THEN NoError ELSE [kind |-> "InternalError"],
                                [entry |-> out.entry, isDuplicate |-> out.isDuplicate,
                                 updatedId |-> out.updatedId])
    /\ UNCHANGED <<db, dimension, provider, inflight, pipeline>>

\* memory_store calls in flight together.  The handler is an async function
\* (server.ts:188) and nothing queues the requests, so a call that arrives
\* while another awaits its embedding starts at once.  A handler stops at two
\* awaits: at embeddings.embed (server.ts:201), which the provider settles in
\* a later turn of the event loop, and in store at findSimilar (README.md:410),
\* whose promise is settled when awaited, so that the rest of store is a
\* promise job: it runs before the event loop takes the next event.
JobQueued == \E g \in Calls : inflight[g].pc = "store"

\* The calls in flight when a call arrives.
InFlight == { g \in Calls : inflight[g].pc \in {"embed", "store"} }

\* A memory_store request arrives: the handler trims the content and awaits
\* the embedding.
Request(h, payload) ==
    /\ db = "open"
    /\ last.op = "idle"
    /\ ~JobQueued
    /\ inflight[h].pc = "none"
    /\ \A g \in 1..(h - 1) : inflight[g].pc # "none"
    /\ inflight' = [inflight EXCEPT ![h] =
          IF payload.content = ""
          THEN [ pc |-> "done", payload |-> payload, with |-> InFlight,
                 found |-> rows, ok |-> FALSE,
                 error |-> [kind |-> "InvalidParams"] ]
          ELSE [ pc |-> "embed", payload |-> payload, with |-> InFlight,
                 found |-> rows ]]
    /\ UNCHANGED <<rows, metadata, db, dimension, provider, now, nextId, last, pipeline>>

\* The embedding of call h settles with raw: the handler goes on into store,
\* which searches the rows as they are now and awaits the match.
Embedded(h, raw) ==
    LET call == inflight[h]
    IN  /\ call.pc = "embed"
        /\ ~JobQueued
        /\ inflight' = [inflight EXCEPT ![h] =
              IF EmbedThrows(provider, raw) \/ SearchThrows(rows, raw.embedding)
              THEN [ pc |-> "done", payload |-> call.payload, with |-> call.with,
                     found |-> call.found, ok |-> FALSE,
                     error |-> [kind |-> "InternalError"] ]
              ELSE [ pc |-> "store", payload |-> call.payload, with |-> call.with,
                     found |-> call.found, embedding |-> raw.embedding,
                     existing |-> FindSimilar(rows, raw.embedding,
                                              DefaultDedupeThreshold) ]]
        /\ UNCHANGED <<rows, metadata, db, dimension, provider, now, nextId, last, pipeline>>

\* The rest of store and of the handler of call h: the UPDATE of the match
\* found before the await or the INSERT, then incrementCaptureCount and the
\* response.
Stored(h) ==
    LET call == inflight[h]
        updates == Len(call.existing) > 0
    IN  /\ call.pc = "store"
        /\ ~updates => nextId <= MaxIds
        /\ metadata.capture_count # Some(MaxCaptures)
        /\ \E t1 \in Ticks(now) :
           \E t2 \in IF updates THEN Ticks(t1) ELSE {t1} :
           LET id == IF updates THEN call.existing[1].entry.id ELSE nextId
           IN  /\ rows' = IF updates
                          THEN StoreUpdate(rows, id, call.payload, call.embedding, t1)
                          ELSE StoreInsert(rows, id, call.payload, call.embedding, t1)
               /\ nextId' = IF updates THEN nextId ELSE nextId + 1
               /\ now' = t2
               /\ inflight' = [inflight EXCEPT ![h] =
                     [ pc |-> "done", payload |-> call.payload, with |-> call.with,
                       found |-> call.found, embedding |-> call.embedding,
                       ok |-> TRUE, error |-> NoError,
                       entry |-> ReturnedEntry(id, call.payload, call.embedding, t2),
                       isDuplicate |-> updates,
                       updatedId |-> IF updates THEN Some(id) ELSE None ]]
        /\ metadata' = IncrementCaptureCount(metadata)
        /\ UNCHANGED <<db, dimension, provider, last, pipeline>>

\* Every call in flight has its response; the client sends the next ones.
Answered ==
    /\ \A h \in Calls : inflight[h].pc = "done"
    /\ inflight' = NoCalls
    /\ UNCHANGED <<rows, metadata, db, dimension, provider, now, nextId, last, pipeline>>

\* TransformersEmbeddings.embed called for the calls in flight.  embed awaits
\* ensurePipeline, which tests this.pipeline and, finding it null, awaits
\* pipeline(...) and assigns the result; then embed awaits the model's output.
Loading == { c \in Calls : inflight[c].pc = "load" }

\* embed(text) is called for call c: ensurePipeline finds the model or starts
\* to load it.
EmbedCall(c, text) ==
    /\ db = "open"
    /\ last.op = "idle"
    /\ inflight[c].pc = "none"
    /\ \A g \in 1..(c - 1) : inflight[g].pc # "none"
    /\ inflight' = [inflight EXCEPT ![c] =
          [pc |-> IF pipeline = NotLoaded THEN "load" ELSE "infer", text |-> text]]
    /\ UNCHANGED <<rows, metadata, db, dimension, provider, now, nextId, last,
                   pipeline>>

\* pipeline(...) settles for call c: the model is assigned to this.pipeline,
\* or ensurePipeline throws 'Failed to load embedding model'.
PipelineSettles(c, loads) ==
    /\ inflight[c].pc = "load"
    /\ pipeline' = IF loads THEN "loaded" ELSE pipeline
    /\ inflight' = [inflight EXCEPT ![c] =
          IF loads THEN [pc |-> "infer", text |-> inflight[c].text]
          ELSE [pc |-> "done", text |-> inflight[c].text, ok |-> FALSE,
                error |-> [kind |-> "Failed to load embedding model"]]]
    /\ UNCHANGED <<rows, metadata, db, dimension, provider, now, nextId, last>>

\* The model's output for call c settles: embed returns the array if it has
\* the provider's dimension.
Inferred(c, raw) ==
    /\ inflight[c].pc = "infer"
    /\ inflight' = [inflight EXCEPT ![c] =
          IF EmbedThrows("transformers", raw)
          THEN [pc |-> "done", text |-> inflight[c].text, ok |-> FALSE,
                error |-> [kind |-> "embed"]]
          ELSE [pc |-> "done", text |-> inflight[c].text, ok |-> TRUE,
                embedding |-> raw.embedding]]
    /\ UNCHANGED <<rows, metadata, db, dimension, provider, now, nextId, last,
                   pipeline>>

\* Every embed call has returned or thrown; the next ones are made.
EmbedsReturned ==
    /\ \A c \in Calls : inflight[c].pc = "done"
    /\ inflight' = NoCalls
    /\ UNCHANGED <<rows, metadata, db, dimension, provider, now, nextId, last,
                   pipeline>>

\* Concurrent embed calls of the in-process provider.
NextPipeline ==
    \/ \E c \in Calls, p \in {PayloadPlain, PayloadFull} : EmbedCall(c, p.content)
    \/ \E c \in Calls, loads \in BOOLEAN : PipelineSettles(c, loads)
    \/ \E c \in Calls, raw \in {Failure, Raw(VecA(TransformersDimension)),
                               Raw(VecB(TransformersDimension)), Raw(WrongLength)} :
          Inferred(c, raw)
    \/ EmbedsReturned

SpecPipeline == InitDB /\ [][NextPipeline]_vars

\* What memory_index passes to store for the k-th file it reads.
PayloadFile(k) ==
    [ content |-> "File: " \o ToString(k),
      tags |-> <<"indexed", "path:" \o ToString(k)>>,
      category |-> "project-context",
      source |-> "index:root" ]

\* One iteration of the loop of memory_index: embed and store the file; an
\* exception of either is caught and counted.
IndexFile(p, st, k, raw, t) ==
    IF EmbedThrows(p, raw)
    THEN [st EXCEPT !.errors = @ + 1]
    ELSE LET out == StoreOutcome(st.rows, PayloadFile(k), raw.embedding,
                                 IndexDedupeThreshold, st.nextId, t, t)
         IN  IF ~out.ok
             THEN [st EXCEPT !.errors = @ + 1]
             ELSE [ rows |-> out.rows,
                    nextId |-> IF out.isDuplicate THEN st.nextId ELSE st.nextId + 1,
                    indexed |-> st.indexed + 1,
                    errors |-> st.errors ]

RECURSIVE IndexFiles(_, _, _, _, _)
IndexFiles(p, st, files, k, t) ==
    IF k > Len(files) THEN st
    ELSE IndexFiles(p, IndexFile(p, st, k, files[k], t), files, k + 1, t)

\* The directories of the model: up to MaxFiles files, for each what the
\* provider hands back for its content.
Directories ==
    UNION { [1..n -> {Failure, Raw(VecB(dimension))}] :
            n \in 1..MaxFiles }

\* The memory_index tool: every file is embedded and stored with threshold
\* 0.98; capture_count is not touched.
MemoryIndex(files) ==
    /\ db = "open"
    /\ Ready("memory_index", [files |-> files])
    /\ \E t \in Ticks(now) :
          LET st == IndexFiles(provider,
                               [rows |-> rows, nextId |-> nextId,
                                indexed |-> 0, errors |-> 0],
                               files, 1, t)
          IN  /\ st.nextId <= MaxIds + 1
              /\ rows' = st.rows
              /\ nextId' = st.nextId
              /\ now' = t
              /\ last' = Call("memory_index", [files |-> files], TRUE, NoError,
                              [indexed |-> st.indexed, errors |-> st.errors])
    /\ UNCHANGED <<metadata, db, dimension, provider, inflight, pipeline>>

\* The memory_search tool: embed the query, vectorSearch with the limit and the
\* minScore of the arguments.
MemorySearch(raw, limit, minScore) ==
    LET args == [raw |-> raw, limit |-> limit, minScore |-> minScore]
    IN  /\ db = "open"
        /\ Ready("memory_search", args)
        /\ last' = IF EmbedThrows(provider, raw) \/ SearchThrows(rows, raw.embedding)
                   THEN Call("memory_search", args, FALSE,
                             [kind |-> "InternalError"], NoResult)
                   ELSE Call("memory_search", args, TRUE, NoError,
                             [results |-> VectorSearch(rows, raw.embedding, limit,
                                                       minScore)])
        /\ UNCHANGED <<rows, metadata, db, dimension, provider, now, nextId, inflight, pipeline>>

\* The memory_forget tool with an id.
MemoryForgetId(id) ==
    /\ db = "open"
    /\ Ready("memory_forget", [id |-> id])
    /\ rows' = DeleteRow(rows, id)
    /\ last' = Call("memory_forget", [id |-> id], TRUE, NoError,
                    [deleted |-> 1, mode |-> "id"])
    /\ UNCHANGED <<metadata, db, dimension, provider, now, nextId, inflight, pipeline>>

\* The memory_forget tool with a query and no id.
MemoryForgetQuery(raw, threshold) ==
    /\ db = "open"
    /\ Ready("memory_forget", [raw |-> raw, threshold |-> threshold])
    /\ IF EmbedThrows(provider, raw) \/ SearchThrows(rows, raw.embedding)
       THEN /\ rows' = rows
            /\ last' = Call("memory_forget", [raw |-> raw, threshold |-> threshold],
                            FALSE, [kind |-> "InternalError"], NoResult)
       ELSE LET matches == VectorSearch(rows, raw.embedding, DeleteByQueryLimit,
                                        threshold)
            IN  /\ rows' = DeleteAll(rows, matches)
                /\ last' = Call("memory_forget", [raw |-> raw, threshold |-> threshold],
                                TRUE, NoError,
                                [deleted |-> Len(matches), mode |-> "query"])
    /\ UNCHANGED <<metadata, db, dimension, provider, now, nextId, inflight, pipeline>>

\* shutdown with no try around either close: a throw of transport.close()
\* leaves before db.close(), and a throw of either escapes.
ShutdownUncaught(d, transportCloseThrows, dbCloseThrows) ==
    [ dbCloseCalled |-> ~transportCloseThrows,
      db |-> IF transportCloseThrows \/ dbCloseThrows THEN d ELSE "closed",
      escaped |-> transportCloseThrows \/ dbCloseThrows ]

\* shutdown: transport.close() is awaited inside a try whose catch is empty,
\* then db.close() is called inside another.  A db.close() that throws leaves
\* the handle as it was.
ShutdownOutcome(d, transportCloseThrows, dbCloseThrows) ==
    [ dbCloseCalled |-> TRUE,
      db |-> IF dbCloseThrows THEN d ELSE "closed",
      escaped |-> FALSE ]

\* The handler testing the query before the id.
ForgetModeQueryFirst(id, query) ==
    IF query \notin {Undefined, ""} THEN "query"
    ELSE IF id # None THEN "id"
    ELSE "invalid"

\* The branch the memory_forget handler takes: if (id), else if (query), else
\* it throws.  id is None when the argument is missing or the empty string.
ForgetMode(id, query) ==
    IF id # None THEN "id"
    ELSE IF query \notin {Undefined, ""} THEN "query"
    ELSE "invalid"

\* The memory_forget tool with any arguments: raw is what the provider returns
\* for the query if it is asked.
MemoryForget(id, query, raw, threshold) ==
    LET args == [id |-> id, query |-> query, raw |-> raw, threshold |-> threshold]
        mode == ForgetMode(id, query)
    IN  /\ db = "open"
        /\ Ready("memory_forget", args)
        /\ IF mode = "id"
           THEN /\ rows' = DeleteRow(rows, id[1])
                /\ last' = Call("memory_forget", args, TRUE, NoError,
                                [deleted |-> 1, mode |-> "id"])
           ELSE IF mode = "invalid"
           THEN /\ rows' = rows
                /\ last' = Call("memory_forget", args, FALSE,
                                [kind |-> "InvalidParams"], NoResult)
           ELSE IF EmbedThrows(provider, raw) \/ SearchThrows(rows, raw.embedding)
           THEN /\ rows' = rows
                /\ last' = Call("memory_forget", args, FALSE,
                                [kind |-> "InternalError"], NoResult)
           ELSE LET matches == VectorSearch(rows, raw.embedding, DeleteByQueryLimit,
                                            threshold)
                IN  /\ rows' = DeleteAll(rows, matches)
                    /\ last' = Call("memory_forget", args, TRUE, NoError,
                                    [deleted |-> Len(matches), mode |-> "query"])
        /\ UNCHANGED <<metadata, db, dimension, provider, now, nextId, inflight,
                       pipeline>>

\* SIGINT or SIGTERM: the transport is closed, then the database; the process
\* ends and another may be started.
Shutdown(transportCloseThrows, dbCloseThrows) ==
    LET args == [ transportCloseThrows |-> transportCloseThrows,
                  dbCloseThrows |-> dbCloseThrows ]
        out == ShutdownOutcome(db, transportCloseThrows, dbCloseThrows)
    IN  /\ db = "open"
        /\ last.op = "idle"
        /\ db' = out.db
        /\ last' = Call("shutdown", args, ~out.escaped,
                        IF out.escaped THEN [kind |-> "uncaught"] ELSE NoError,
                        [dbCloseCalled |-> out.dbCloseCalled])
    /\ UNCHANGED <<rows, metadata, dimension, provider, now, nextId, inflight, pipeline>>

\* No process yet, and no dataset file.
Init ==
    /\ rows = <<>>
    /\ metadata = [capture_count |-> None, profile |-> None]
    /\ db = "none"
    /\ dimension = TransformersDimension
    /\ provider = "none"
    /\ now = 0
    /\ nextId = 1
    /\ last = Idle
    /\ inflight = NoCalls
    /\ pipeline = NotLoaded

Next ==
    \/ \E key \in BOOLEAN : StartServer(key)
    \/ \E p \in {PayloadPlain, PayloadBlank}, raw \in RawOutputs : MemoryStore(p, raw)
    \/ \E id \in 1..(MaxIds + 1) : MemoryForgetId(id)
    \/ \E raw \in RawOutputs : MemoryForgetQuery(raw, DefaultForgetThreshold)
    \/ \E transportThrows, dbThrows \in BOOLEAN : Shutdown(transportThrows, dbThrows)
    \/ Return

Spec == Init /\ [][Next]_vars

\* The tools that embed, with the in-process provider: memory_store,
\* memory_index, memory_search and memory_forget by query; shutdown and restart.
NextTools ==
    \/ StartServer(FALSE)
    \/ \E raw \in {Failure, Raw(VecA(dimension))} : MemoryStore(PayloadPlain, raw)
    \/ \E files \in Directories : MemoryIndex(files)
    \/ \E raw \in {Failure, Raw(VecA(dimension))} :
          MemorySearch(raw, DefaultLimit, DefaultMinScore)
    \/ \E raw \in {Failure, Raw(VecA(dimension))} :
          MemoryForgetQuery(raw, DefaultForgetThreshold)
    \/ Shutdown(FALSE, FALSE)
    \/ Return

SpecTools == Init /\ [][NextTools]_vars

\* A dataset of one record more than the cap of deleteByQuery, as stores with
\* dedupeThreshold 1 of embeddings of different directions leave it: the k-th
\* embedding is (4, k - 2, 0, ...), and each has a cosine >= 0.8 with VecE.
VecK(d, k) == [i \in 1..d |-> IF i = 1 THEN 4 ELSE IF i = 2 THEN k - 2 ELSE 0]

InitFull ==
    /\ rows = [k \in 1..(DeleteByQueryLimit + 1) |->
                  RowOf(k, PayloadPlain, VecK(TransformersDimension, k), 0)]
    /\ metadata = [capture_count |-> Some(0), profile |-> None]
    /\ db = "open"
    /\ dimension = TransformersDimension
    /\ provider = "none"
    /\ now = 0
    /\ nextId = DeleteByQueryLimit + 2
    /\ last = Idle
    /\ inflight = NoCalls
    /\ pipeline = NotLoaded

\* delete and deleteByQuery on that dataset.
NextFull ==
    \/ \E id \in 1..(DeleteByQueryLimit + 1) : Delete(id)
    \/ \E q \in {VecE(dimension), VecA(dimension), VecB(dimension)},
          t \in {DefaultForgetThreshold, DefaultDedupeThreshold, <<0, 1>>} :
          DeleteByQuery(q, t)
    \/ Return

SpecFull == InitFull /\ [][NextFull]_vars

\* A vector nearer to VecA than to VecB, and a threshold below the cosine of
\* either with it.
VecX(d) == [i \in 1..d |-> IF i = 1 THEN 8 ELSE IF i = 2 THEN 1 ELSE 0]
LowDedupeThreshold == <<4, 5>>

\* store with two thresholds, so that a later store finds several records at
\* or above its threshold, and delete.
NextNear ==
    \/ \E p \in {PayloadPlain, PayloadFull},
          e \in {VecA(dimension), VecB(dimension), VecX(dimension)},
          t \in {DefaultDedupeThreshold, LowDedupeThreshold} :
          Store(p, e, t)
    \/ \E id \in 1..MaxIds : Delete(id)
    \/ Return

SpecNear == InitDB /\ [][NextNear]_vars

\* The vectors of length d with small integer components.
Vectors(d) == [1..d -> -1..MaxComponent]

\* cosineSimilarity(a, b), as vectorSearch calls it for a query and a row.
CosineCall(a, b) ==
    /\ last.op = "idle"
    /\ last' = IF CosineThrows(a, b)
               THEN Call("cosineSimilarity", [a |-> a, b |-> b], FALSE,
                         [kind |-> "Vector dimension mismatch"], NoResult)
               ELSE Call("cosineSimilarity", [a |-> a, b |-> b], TRUE, NoError,
                         [score |-> CosineRounded(a, b)])
    /\ UNCHANGED <<rows, metadata, db, dimension, provider, now, nextId, inflight, pipeline>>

\* The vector opposite to a.
Opposite(a) == [i \in 1..Len(a) |-> 0 - a[i]]

\* cosineSimilarity of every small vector against itself, its opposite, three
\* fixed vectors, the zero vector and a vector of another length.
NextCosine ==
    \/ \E a \in Vectors(dimension) :
       \E b \in {a, Opposite(a), VecE(dimension), VecA(dimension), VecB(dimension),
                 VecZ(dimension), WrongLength} :
          CosineCall(a, b)
    \/ Return

SpecCosine == InitDB /\ [][NextCosine]_vars

\* The reads of MemoryDB between store, delete and incrementCaptureCount.
NextReads ==
    \/ \E e \in {VecA(dimension), VecB(dimension)} :
          Store(PayloadPlain, e, DefaultDedupeThreshold)
    \/ \E id \in 1..MaxIds : Delete(id)
    \/ IncrementCaptureCountCall
    \/ Stats
    \/ GetProfile
    \/ GetAllContent(ServerRecentLimit)
    \/ \E q \in {VecE(dimension), WrongLength} :
          Search(q, DefaultLimit, DefaultMinScore)
    \/ Return

SpecReads == InitDB /\ [][NextReads]_vars

\* memory_store and memory_forget with an id, a query, both or neither.
NextForget ==
    \/ \E raw \in {Raw(VecA(dimension)), Raw(VecB(dimension))} :
          MemoryStore(PayloadPlain, raw)
    \/ \E id \in {None} \cup {Some(k) : k \in 1..MaxIds},
          query \in {Undefined, "", "q"},
          raw \in {Failure, Raw(VecA(dimension))} :
          MemoryForget(id, query, raw, DefaultForgetThreshold)
    \/ Return

SpecForget == InitDB /\ [][NextForget]_vars

\* memory_store calls in flight together, on an open dataset.
NextInFlight ==
    \/ \E h \in Calls, p \in {PayloadPlain, PayloadFull} : Request(h, p)
    \/ \E h \in Calls, raw \in {Failure, Raw(VecA(dimension)), Raw(VecB(dimension))} :
          Embedded(h, raw)
    \/ \E h \in Calls : Stored(h)
    \/ Answered

SpecInFlight == InitDB /\ [][NextInFlight]_vars

\* Every operation of MemoryDB on one dataset file, from before the file
\* exists: open under either dimension, the operations, close and open again.
NextOps ==
    \/ \E d \in Dims : Open(d)
    \/ Close
    \/ \E p \in {PayloadPlain, PayloadFull}, e \in {VecA(dimension), VecB(dimension)} :
          Store(p, e, DefaultDedupeThreshold)
    \/ Search(VecE(dimension), DefaultLimit, DefaultMinScore)
    \/ \E id \in 1..MaxIds : Delete(id)
    \/ DeleteByQuery(VecA(dimension), DefaultDedupeThreshold)
    \/ Stats
    \/ \E l \in {1, ServerRecentLimit} : GetAllContent(l)
    \/ IncrementCaptureCountCall
    \/ Return

SpecOps == Init /\ [][NextOps]_vars

---------------------------------------------------------------------------
(* Properties.                                                             *)

\* The cosine of embedding e and the embedding of row r, both of one length.
ScoreAgainst(e, r) == CosineSimilarity(e, JSONParse(r.embedding))

OpenMismatchFails ==
    /\ ( /\ last.op = "startServer"
         /\ \E i \in 1..Len(last.pre) :
               Len(JSONParse(last.pre[i].embedding)) # dimension )
       => /\ ~last.ok
          /\ last.error.kind = "Database dimension mismatch"
          /\ \A i \in 1..Len(last.pre) :
                last.error.found = Len(JSONParse(last.pre[i].embedding))
          /\ last.error.expected = dimension
          /\ last.error.found # last.error.expected
          /\ db = "failed"
          /\ rows = last.pre
    /\ db = "failed" => last.op \in {"startServer", "idle"}

\* An open has failed on a dataset that holds records of the other dimension.
OpenMismatchHappened ==
    /\ last.op = "startServer"
    /\ ~last.ok
    /\ db = "failed"
    /\ Len(last.pre) > 0
    /\ last.error.found = TransformersDimension
    /\ last.error.expected = OpenAIDimension

\* C3.  MemoryDB.store called with an embedding whose length is not the
\* configured dimension fails with a dimension mismatch error and leaves the
\* persisted records as they were, the empty store included.
StoreWrongLengthFailsFast ==
    ( /\ last.op = "store"
      /\ Len(last.args.embedding) # dimension )
    => /\ ~last.ok
       /\ last.error.kind = "Vector dimension mismatch"
       /\ rows = last.pre

\* C4.  Dedup idempotence: when the same content and embedding are stored
\* twice in a row, the embedding's similarity with itself being 1 and the
\* dedupeThreshold at most 1, the second call reports isDuplicate = true and
\* updatedId = the id of the first call's entry, and there are as many
\* records after the second call as after the first.
DedupIdempotence ==
    ( /\ last.op = "store"
      /\ last.repeat
      /\ last.ok
      /\ ScoreEQ(CosineSimilarity(last.args.embedding, last.args.embedding),
                 ScoreOne)
      /\ ScoreGE(ScoreOne, ScoreOf(last.args.threshold)) )
    => /\ last.result.isDuplicate
       /\ last.result.updatedId = last.prev.entry.id
       /\ last.result.entry.id = last.prev.entry.id
       /\ Len(rows) = Len(last.pre)

\* The same store twice in a row with dedupeThreshold 1, beside another record.
StoredTwiceAtThresholdOne ==
    /\ last.op = "store"
    /\ last.repeat
    /\ last.ok
    /\ last.args.threshold = <<1, 1>>
    /\ last.args.embedding = VecA(dimension)
    /\ last.result.isDuplicate
    /\ Len(rows) = MaxIds

\* C5.  A successful store changes exactly one record and leaves the others
\* as they were.  When a record scores >= dedupeThreshold the number of
\* records is unchanged and the matched record keeps its id, while its
\* content, embedding, tags, category, source and created_at are the new
\* values; when none does, there is exactly one record more and isDuplicate
\* is false.
StoreFrame ==
    ( last.op = "store" /\ last.ok ) =>
        LET a == last.args
            pre == last.pre
            matches(r) == /\ Decodable(r)
                          /\ ScoreGE(ScoreAgainst(a.embedding, r),
                                     ScoreOf(a.threshold))
        IN  IF \E i \in 1..Len(pre) : matches(pre[i])
            THEN /\ Len(rows) = Len(pre)
                 /\ last.result.isDuplicate
                 /\ \E k \in 1..Len(pre) :
                       /\ matches(pre[k])
                       /\ last.result.updatedId = Some(pre[k].id)
                       /\ rows[k].id = pre[k].id
                       /\ rows[k].content = a.payload.content
                       /\ JSONParse(rows[k].embedding) = a.embedding
                       /\ JSONParse(rows[k].tags) = a.payload.tags
                       /\ EntryOf(rows[k]).category = a.payload.category
                       /\ rows[k].source = a.payload.source
                       /\ rows[k].created_at \in last.at..now
                       /\ \A j \in 1..Len(pre) : j # k => rows[j] = pre[j]
            ELSE /\ Len(rows) = Len(pre) + 1
                 /\ ~last.result.isDuplicate
                 /\ \A j \in 1..Len(pre) : rows[j] = pre[j]

\* C6.  A store that inserts a record leaves no other persisted record at a
\* cosine similarity >= dedupeThreshold with the record it inserted.
InsertHasNoNearDuplicate ==
    ( last.op = "store" /\ last.ok /\ ~last.result.isDuplicate ) =>
        \A i \in 1..Len(rows) :
            Some(rows[i].id) # last.result.entry.id
            => ~ScoreGE(ScoreAgainst(last.args.embedding, rows[i]),
                        ScoreOf(last.args.threshold))

\* A store has inserted a record beside another one.
InsertedBesideAnother ==
    /\ last.op = "store"
    /\ last.ok
    /\ ~last.result.isDuplicate
    /\ Len(last.pre) > 0
    /\ Len(rows) = Len(last.pre) + 1

\* C6, as stated.  At most one near duplicate: after any sequence of store and
\* delete calls with one dedupeThreshold T on a dataset that was empty, no two
\* distinct persisted records have a cosine similarity >= T with each other.
AtMostOneNearDuplicate ==
    \A i, j \in 1..Len(rows) :
        i # j => ~ScoreGE(ScoreAgainst(JSONParse(rows[i].embedding), rows[j]),
                          ScoreOf(DefaultDedupeThreshold))

\* C7.  Ranking correctness: whatever the records, the query, the limit and
\* the minScore, the scores of the sequence vectorSearch returns do not
\* increase, each is >= minScore, and there are at most limit results (none
\* when the limit is below 0).
RankingCorrectness ==
    ( last.op = "vectorSearch" /\ last.ok ) =>
        LET r == last.result.results
        IN  /\ \A i \in 1..(Len(r) - 1) : ScoreGE(r[i].score, r[i + 1].score)
            /\ \A i \in 1..Len(r) :
                  ScoreGE(r[i].score, ScoreOf(last.args.minScore))
            /\ Len(r) <= Max(last.args.limit, 0)

\* C8.  Exact brute force search: the result of vectorSearch is the first
\* min(limit, n) of the n persisted records with score >= minScore in score
\* descending order, each with its score, and no record left out scores
\* strictly higher than a returned one.
ExactBruteForce ==
    ( last.op = "vectorSearch" /\ last.ok ) =>
        LET r == last.result.results
            q == last.args.queryEmbedding
            matching == { i \in 1..Len(rows) :
                            /\ Decodable(rows[i])
                            /\ ScoreGE(ScoreAgainst(q, rows[i]),
                                       ScoreOf(last.args.minScore)) }
            returned == { i \in matching :
                            \E k \in 1..Len(r) : r[k].entry.id = rows[i].id }
        IN  /\ Len(r) = Max(Min(last.args.limit, Cardinality(matching)), 0)
            /\ Cardinality(returned) = Len(r)
            /\ \A k \in 1..Len(r) : \E i \in matching :
                  /\ r[k].entry = EntryOf(rows[i])
                  /\ ScoreEQ(r[k].score, ScoreAgainst(q, rows[i]))
            /\ \A k \in 1..(Len(r) - 1) : ScoreGE(r[k].score, r[k + 1].score)
            /\ \A i \in matching \ returned : \A k \in 1..Len(r) :
                  ScoreGE(r[k].score, ScoreAgainst(q, rows[i]))

\* The dataset holds exactly one record, stored with embedding E, and the
\* call is vectorSearch(E, 5, 0.3).
SearchesForTheOnlyRecord ==
    /\ last.op = "vectorSearch"
    /\ last.args.limit = DefaultLimit
    /\ last.args.minScore = DefaultMinScore
    /\ Len(rows) = 1
    /\ rows[1].embedding = JSONStringify(last.args.queryEmbedding)

\* The call has returned that record alone, with score 1.
FoundWithScoreOne ==
    /\ last.ok
    /\ Len(last.result.results) = 1
    /\ last.result.results[1].entry = EntryOf(rows[1])
    /\ ScoreEQ(last.result.results[1].score, ScoreOne)

\* C9.  Store then exact match search: for an embedding E of length D that is
\* not the zero vector, after store(content, E) on an empty dataset,
\* vectorSearch(E, 5, 0.3) returns exactly one result, the stored record, with
\* score 1.
ExactMatchNonZero ==
    ( /\ SearchesForTheOnlyRecord
      /\ Dot(last.args.queryEmbedding, last.args.queryEmbedding) # 0 )
    => FoundWithScoreOne

\* The exact match search has run for an embedding that is no unit vector.
ExactMatchSearched ==
    /\ SearchesForTheOnlyRecord
    /\ last.args.queryEmbedding = VecA(dimension)
    /\ FoundWithScoreOne

\* C9, as stated.  For any embedding E of length D, after store(content, E) on
\* an empty dataset, vectorSearch(E, 5, 0.3) returns exactly one result, the
\* stored record, with score 1.
ExactMatchAnyEmbedding ==
    SearchesForTheOnlyRecord => FoundWithScoreOne

\* C10.  Delete by id is idempotent and total: delete(id) raises no error
\* whether or not the id exists, no record has that id afterwards, every
\* record with another id is still there and none is new, and a second
\* delete(id) leaves the records exactly as the first left them.
DeleteIdempotentTotal ==
    last.op = "delete" =>
        /\ last.ok
        /\ last.args.id \notin Ids(rows)
        /\ \A i \in 1..Len(last.pre) :
              last.pre[i].id # last.args.id
              => \E j \in 1..Len(rows) : rows[j] = last.pre[i]
        /\ \A j \in 1..Len(rows) :
              \E i \in 1..Len(last.pre) : last.pre[i] = rows[j]
        /\ last.repeat => rows = last.pre

\* A record has been deleted beside another one, and delete called once more.
DeletedTwice ==
    /\ last.op = "delete"
    /\ last.repeat
    /\ last.prev.changes = 1
    /\ Len(rows) > 0

\* C11.  deleteByQuery(Q, threshold) returns the number of records it has
\* removed (the decrease of the number of records), every record it removed
\* scores >= threshold against Q, and every record scoring below threshold is
\* still there, unchanged; a call that throws removes nothing.
DeleteByQueryCount ==
    last.op = "deleteByQuery" =>
        LET q == last.args.queryEmbedding
            pre == last.pre
            hit(r) == /\ Decodable(r)
                      /\ ScoreGE(ScoreAgainst(q, r), ScoreOf(last.args.threshold))
        IN  IF last.ok
            THEN /\ last.result.deleted = Len(pre) - Len(rows)
                 /\ \A i \in 1..Len(pre) :
                       pre[i].id \notin Ids(rows) => hit(pre[i])
                 /\ \A i \in 1..Len(pre) :
                       ~hit(pre[i]) => \E j \in 1..Len(rows) : rows[j] = pre[i]
                 /\ \A j \in 1..Len(rows) :
                       \E i \in 1..Len(pre) : pre[i] = rows[j]
            ELSE rows = pre

\* A deleteByQuery has removed one of two records and left the other.
DeletedOneOfTwoByQuery ==
    /\ last.op = "deleteByQuery"
    /\ last.ok
    /\ Len(last.pre) = 2
    /\ last.result.deleted = 1
    /\ Len(rows) = 1

\* C12.  capture_count never decreases: over every step of store,
\* vectorSearch, delete, deleteByQuery, stats, getAllContent and
\* incrementCaptureCount, and over close and open of the same dataset, its
\* value after the step is >= its value before; and it is 0 when the open
\* has just created the dataset.
CaptureCountMonotone ==
    [][ /\ CaptureCount(metadata') >= CaptureCount(metadata)
        /\ metadata.capture_count # None
           => metadata'.capture_count # None
        /\ (metadata.capture_count = None /\ db' = "open")
           => metadata'.capture_count = Some(0) ]_vars

\* A dataset whose capture_count is above 0 has been closed and opened again.
ReopenedWithCaptures ==
    /\ last.op = "open"
    /\ last.ok
    /\ metadata.capture_count = Some(MaxCaptures)
    /\ Len(rows) > 0

\* The store operations that completed successfully in the call l.
StoresCompleted(l) ==
    IF l.op = "memory_store" /\ l.ok THEN 1
    ELSE IF l.op = "memory_index" THEN l.result.indexed
    ELSE 0

\* C13.  capture_count counts the successful store operations, whether they
\* inserted or updated: it starts at 0 and every tool call adds to the
\* captureCount stats reports exactly the number of store operations that
\* completed successfully in it; a store that failed adds nothing.
CaptureCountCountsStores ==
    [][ CaptureCount(metadata') - CaptureCount(metadata) = StoresCompleted(last') ]_vars

\* The ids of the rows, in row order.
RowIds(rws) == [i \in 1..Len(rws) |-> rws[i].id]

\* C14.  Identifier invariant I2: no two persisted records share an id; an id
\* that store mints differs from every id minted before on the dataset, those
\* of deleted records included; and a record keeps its id as long as it
\* exists: over every step the records that remain are the same ids in the
\* same order, and an id that appears is the one just minted.
IdentifierInvariant ==
    [][ LET before == Ids(rows)
            after == Ids(rows')
        IN  /\ Cardinality(before) = Len(rows)
            /\ Cardinality(after) = Len(rows')
            /\ before \subseteq 1..(nextId - 1)
            /\ nextId' >= nextId
            /\ after \ before \subseteq nextId..(nextId' - 1)
            /\ SelectSeq(RowIds(rows'), LAMBDA id : id \in before)
               = SelectSeq(RowIds(rows), LAMBDA id : id \in after)
            /\ ( last'.op = "store" /\ last'.ok )
               => IF last'.result.isDuplicate
                  THEN /\ last'.result.entry.id[1] \in before
                       /\ nextId' = nextId
                       /\ after = before
                  ELSE /\ last'.result.entry.id = Some(nextId)
                       /\ nextId' = nextId + 1
                       /\ after = before \cup {nextId} ]_vars

\* store has minted an id after an older record was deleted: the dataset
\* holds the newest id alone.
MintedAfterDelete ==
    /\ last.op = "store"
    /\ last.ok
    /\ ~last.result.isDuplicate
    /\ last.result.entry.id = Some(MaxIds)
    /\ Len(rows) = 1

\* The options the record with this content was stored with.
StoredWith(content) == CHOOSE p \in Payloads : p.content = content

\* C15.  Category round trip: a record stored with the category absent is
\* read back by vectorSearch with the category absent, and a record stored
\* with the empty string as category is read back with the empty string: every
\* entry a search returns has the category it was stored with.
CategoryRoundTrip ==
    ( last.op = "vectorSearch" /\ last.ok ) =>
        \A k \in 1..Len(last.result.results) :
            LET entry == last.result.results[k].entry
            IN  entry.category = StoredWith(entry.content).category

\* The rows whose embedding text parses.
DecodableRows(rws) == SelectSeq(rws, Decodable)

\* C16.  A persisted record whose embedding text does not parse is skipped by
\* vectorSearch without failing the call: the call returns exactly what it
\* would return on the dataset without that record, and never that record.
CorruptRecordSkipped ==
    ( /\ last.op = "vectorSearch"
      /\ \E i \in 1..Len(rows) : ~Decodable(rows[i]) )
    => /\ last.ok
       /\ last.result.results
          = VectorSearch(DecodableRows(rows), last.args.queryEmbedding,
                         last.args.limit, last.args.minScore)
       /\ \A k \in 1..Len(last.result.results) :
             \A i \in 1..Len(rows) :
                last.result.results[k].entry.id = rows[i].id => Decodable(rows[i])

\* A search with minScore 0 has met a corrupt record and returned the other.
SearchedPastCorruptRecord ==
    /\ last.op = "vectorSearch"
    /\ last.ok
    /\ last.args.minScore = <<0, 1>>
    /\ Len(rows) = 2
    /\ ~Decodable(rows[1])
    /\ Len(last.result.results) = 1

ProviderFixed ==
    [][ /\ ( db = "open" /\ db' = "open" )
           => /\ provider' = provider
              /\ dimension' = dimension
        /\ last'.op = "startServer"
           => /\ provider' = IF last'.args.openaiApiKey THEN "openai"
                             ELSE "transformers"
              /\ dimension' = IF last'.args.openaiApiKey THEN OpenAIDimension
                              ELSE TransformersDimension
        /\ ( last'.op = "memory_store" /\ last'.args.payload.content # "" )
           => LET raw == last'.args.raw
                  D == IF provider = "openai" THEN OpenAIDimension
                       ELSE TransformersDimension
              IN  /\ dimension = D
                  /\ IF raw.fails \/ Len(raw.embedding) # D
                     THEN ~last'.ok /\ rows' = rows /\ metadata' = metadata
                     ELSE /\ last'.ok
                          /\ \E i \in 1..Len(rows') :
                                /\ Some(rows'[i].id) = last'.result.entry.id
                                /\ JSONParse(rows'[i].embedding) = raw.embedding
                                /\ Len(JSONParse(rows'[i].embedding)) = D ]_vars

\* With the OpenAI provider chosen, a memory_store whose OpenAI call failed
\* has failed, on a dataset that holds a record.
OpenAIFailureSurfaced ==
    /\ provider = "openai"
    /\ dimension = OpenAIDimension
    /\ last.op = "memory_store"
    /\ last.args.payload = PayloadPlain
    /\ last.args.raw = Failure
    /\ ~last.ok
    /\ Len(rows) > 0

\* The files of a memory_index call whose embedding failed.
FailedFiles(p, files) == { k \in 1..Len(files) : EmbedThrows(p, files[k]) }

\* C19.  A failure of the embedding provider during memory_store,
\* memory_search, memory_forget by query or memory_index makes that call
\* fail, and for the input whose embedding failed nothing is persisted,
\* nothing is deleted and capture_count is not incremented.
EmbedFailureSurfaced ==
    [][ /\ ( /\ last'.op \in {"memory_store", "memory_search", "memory_forget"}
             /\ "raw" \in DOMAIN last'.args
             /\ "payload" \in DOMAIN last'.args => last'.args.payload.content # ""
             /\ EmbedThrows(provider, last'.args.raw) )
           => /\ ~last'.ok
              /\ rows' = rows
              /\ metadata' = metadata
        /\ ( /\ last'.op = "memory_index"
             /\ FailedFiles(provider, last'.args.files) # {} )
           => /\ ~last'.ok
              /\ Len(rows') - Len(rows)
                 <= Len(last'.args.files)
                    - Cardinality(FailedFiles(provider, last'.args.files))
              /\ \A i \in 1..Len(rows) : rows'[i].id = rows[i].id
              /\ metadata' = metadata ]_vars

\* The rows of rws that are near duplicates of embedding e at the default
\* dedupeThreshold.
NearDuplicates(rws, e) ==
    { i \in 1..Len(rws) :
        ScoreGE(ScoreAgainst(e, rws[i]), ScoreOf(DefaultDedupeThreshold)) }

\* Calls g and h, g the first to arrive, were in flight together, stored the
\* same embedding, which no record matched when they arrived, and both have
\* their response; no other call stored anything meanwhile.
StoredTogether(g, h) ==
    /\ g < h
    /\ inflight[g].pc = "done" /\ inflight[g].ok
    /\ inflight[h].pc = "done" /\ inflight[h].ok
    /\ g \in inflight[h].with
    /\ inflight[g].embedding = inflight[h].embedding
    /\ NearDuplicates(inflight[g].found, inflight[g].embedding) = {}
    /\ NearDuplicates(inflight[h].found, inflight[h].embedding) = {}
    /\ \A k \in Calls \ {g, h} : inflight[k].pc = "done" => ~inflight[k].ok

\* C20.  Calls are processed one at a time to completion: two memory_store
\* calls in flight together with the same embedding, on a dataset where
\* nothing matches it, leave exactly one record of it; the first call inserts
\* it and the second reports isDuplicate = true.
InFlightStoresSerialized ==
    \A g, h \in Calls :
        StoredTogether(g, h) =>
            /\ Cardinality(NearDuplicates(rows, inflight[h].embedding)) = 1
            /\ ~inflight[g].isDuplicate
            /\ inflight[h].isDuplicate
            /\ \E i \in 1..Len(rows) : rows[i].content = inflight[h].payload.content

\* C20, the part that holds when each embedding settles in a turn of the event
\* loop of its own: the two calls leave exactly one record, and one of them,
\* the one whose embedding settled last, reports isDuplicate = true.
InFlightStoresLeaveOneRecord ==
    \A g, h \in Calls :
        StoredTogether(g, h) =>
            /\ Cardinality(NearDuplicates(rows, inflight[h].embedding)) = 1
            /\ inflight[g].isDuplicate # inflight[h].isDuplicate

\* The second call to arrive has inserted and the first has updated its record.
SecondCallStoredFirst ==
    \E g, h \in Calls :
        /\ StoredTogether(g, h)
        /\ inflight[g].isDuplicate
        /\ ~inflight[h].isDuplicate

\* C20, its first sentence alone: at most one call is being processed.
OneCallAtATime == Cardinality(InFlight) <= 1

\* C21.  On SIGINT or SIGTERM shutdown always reaches db.close(): whether the
\* transport's close succeeds or throws, db.close() is called after it and the
\* database is closed unless db.close() itself throws, and no failure of
\* either close escapes the handler.
ShutdownClosesDatabase ==
    last.op = "shutdown" =>
        /\ last.ok
        /\ last.result.dbCloseCalled
        /\ ~last.args.dbCloseThrows => db = "closed"

\* A shutdown whose transport close threw has closed a dataset with records.
ClosedAfterTransportThrew ==
    /\ last.op = "shutdown"
    /\ last.args.transportCloseThrows
    /\ ~last.args.dbCloseThrows
    /\ db = "closed"
    /\ Len(rows) > 0

\* C22.  When open fails with a dimension mismatch the dataset is not opened
\* and no partial state is left: the failed instance holds no open database
\* handle, and the records and the metadata are what they were before.
FailedOpenLeavesNothing ==
    [][ ( last'.op = "open" /\ ~last'.ok ) =>
            /\ ~HandleHeld(db')
            /\ rows' = rows
            /\ metadata' = metadata ]_vars

\* The part of C22 about the persisted dataset alone.
FailedOpenLeavesDataset ==
    [][ ( last'.op = "open" /\ ~last'.ok ) =>
            /\ rows' = rows
            /\ metadata' = metadata ]_vars

\* An open has failed.
OpenFailed == last.op = "open" /\ ~last.ok /\ db = "failed"

\* C23.  Read operations have no side effects: stats, getAllContent,
\* getProfile and vectorSearch leave the records, capture_count and profile
\* as they are, and stats returns the number of records as totalMemories, the
\* current capture_count as captureCount and the dimension given at open.
ReadsHaveNoSideEffects ==
    [][ /\ last'.op \in {"stats", "getAllContent", "getProfile", "vectorSearch"}
           => /\ rows' = rows
              /\ metadata' = metadata
        /\ last'.op = "stats"
           => /\ last'.result.totalMemories = Len(rows')
              /\ metadata'.capture_count = Some(last'.result.captureCount)
              /\ last'.result.dimension = dimension'
              /\ \E o \in Dims : last'.result.dimension = o ]_vars

\* stats has been read on a dataset whose captures and records differ in number.
StatsReadAfterCaptures ==
    /\ last.op = "stats"
    /\ last.result.totalMemories > 0
    /\ last.result.captureCount > last.result.totalMemories

\* C24.  Similarity bounds I4: cosineSimilarity of two vectors of equal
\* length returns a score in [-1, 1], and exactly 0 when either vector has
\* zero norm; for vectors of unequal length it throws.
SimilarityBounds ==
    last.op = "cosineSimilarity" =>
        IF Len(last.args.a) # Len(last.args.b) THEN ~last.ok
        ELSE /\ last.ok
             /\ 0 - last.result.score.d <= last.result.score.n
             /\ last.result.score.n <= last.result.score.d
             /\ ( Dot(last.args.a, last.args.a) = 0 \/ Dot(last.args.b, last.args.b) = 0 )
                => last.result.score.n = 0

\* C24 without the upper and lower bound: 0 for a zero norm, an error for
\* unequal lengths, and a score within one part in 2^(MantissaBits - 2) of
\* the exact cosine's range.
SimilarityZeroAndMismatch ==
    last.op = "cosineSimilarity" =>
        IF Len(last.args.a) # Len(last.args.b) THEN ~last.ok
        ELSE /\ last.ok
             /\ ( Dot(last.args.a, last.args.a) = 0 \/ Dot(last.args.b, last.args.b) = 0 )
                => last.result.score.n = 0
             /\ Pow2(MantissaBits - 2) * (last.result.score.n - last.result.score.d)
                <= last.result.score.d
             /\ Pow2(MantissaBits - 2) * (0 - last.result.score.n - last.result.score.d)
                <= last.result.score.d
             /\ Sgn(last.result.score.n) = Sgn(Dot(last.args.a, last.args.b))

\* The score of a vector against itself has come out above 1.
SelfSimilarityAboveOne ==
    /\ last.op = "cosineSimilarity"
    /\ last.ok
    /\ last.args.a = last.args.b
    /\ last.result.score.n > last.result.score.d

\* The rows of rws that score >= threshold against embedding e.
Matching(rws, e, threshold) ==
    { i \in 1..Len(rws) :
        Decodable(rws[i]) /\ ScoreGE(ScoreAgainst(e, rws[i]), ScoreOf(threshold)) }

\* C25.  When several persisted records score >= dedupeThreshold against the
\* embedding being stored, store overwrites exactly one of them, one whose
\* score is the maximum among all persisted records, and leaves the others
\* unchanged.
StoreOverwritesBestMatch ==
    ( /\ last.op = "store"
      /\ last.ok
      /\ Cardinality(Matching(last.pre, last.args.embedding, last.args.threshold)) > 1 )
    => /\ last.result.isDuplicate
       /\ Len(rows) = Len(last.pre)
       /\ \E i \in Matching(last.pre, last.args.embedding, last.args.threshold) :
             /\ last.result.updatedId = Some(last.pre[i].id)
             /\ rows[i].id = last.pre[i].id
             /\ rows[i].content = last.args.payload.content
             /\ rows[i].embedding = JSONStringify(last.args.embedding)
             /\ \A j \in 1..Len(last.pre) :
                   Decodable(last.pre[j]) =>
                       ScoreGE(ScoreAgainst(last.args.embedding, last.pre[i]),
                               ScoreAgainst(last.args.embedding, last.pre[j]))
             /\ \A j \in 1..Len(last.pre) : j # i => rows[j] = last.pre[j]

\* A store has overwritten the better of two matches, which was not the first
\* in the table.
OverwroteSecondRow ==
    /\ last.op = "store"
    /\ last.ok
    /\ Cardinality(Matching(last.pre, last.args.embedding, last.args.threshold)) > 1
    /\ last.result.updatedId = Some(last.pre[2].id)
    /\ ~ScoreGE(ScoreAgainst(last.args.embedding, last.pre[1]),
                ScoreAgainst(last.args.embedding, last.pre[2]))

\* C26.  The in-process model is initialised at most once per process: for
\* any interleaving of concurrent embed calls, also of calls that start while
\* the first load is pending, pipeline() is executed at most once until it
\* succeeds, so no two loads are ever pending together and none is pending
\* once the model is loaded.
PipelineLoadedOnce ==
    /\ Cardinality(Loading) <= 1
    /\ pipeline # NotLoaded => Loading = {}

\* C26 for calls that start after the model is loaded: they load nothing.
LoadedPipelineReused ==
    [][ pipeline # NotLoaded => Loading' \subseteq Loading ]_vars

\* C27, as stated.  deleteByQuery deletes every matched record: whatever the
\* dataset, after deleteByQuery(Q, threshold) has returned no persisted record
\* with a decodable embedding scores >= threshold against Q.
DeleteByQueryLeavesNoMatch ==
    ( last.op = "deleteByQuery" /\ last.ok ) =>
        Matching(rows, last.args.queryEmbedding, last.args.threshold) = {}

\* C27.  deleteByQuery deletes the matched records up to its cap: when at most
\* DeleteByQueryLimit records score >= threshold against Q none of them is left;
\* when more do, DeleteByQueryLimit of them are deleted and none that is left
\* scores higher than one that was deleted.
DeleteByQueryUpToCap ==
    ( last.op = "deleteByQuery" /\ last.ok ) =>
        LET q == last.args.queryEmbedding
            before == Matching(last.pre, q, last.args.threshold)
            after == Matching(rows, q, last.args.threshold)
        IN  IF Cardinality(before) <= DeleteByQueryLimit
            THEN after = {}
            ELSE /\ last.result.deleted = DeleteByQueryLimit
                 /\ Cardinality(after) = Cardinality(before) - DeleteByQueryLimit
                 /\ \A j \in after : \A i \in before :
                       last.pre[i].id \notin Ids(rows)
                       => ScoreGE(ScoreAgainst(q, last.pre[i]), ScoreAgainst(q, rows[j]))

\* A deleteByQuery has deleted as many records as its cap allows and left a match.
DeletedUpToCap ==
    /\ last.op = "deleteByQuery"
    /\ last.ok
    /\ last.result.deleted = DeleteByQueryLimit
    /\ Matching(rows, last.args.queryEmbedding, last.args.threshold) # {}

\* A deleteByQuery below its cap has deleted two records and left one that does
\* not match.
DeletedEveryMatch ==
    /\ last.op = "deleteByQuery"
    /\ last.ok
    /\ last.result.deleted = 2
    /\ Len(rows) = 1
    /\ Matching(last.pre, last.args.queryEmbedding, last.args.threshold) # {}

\* The lengths of the embeddings of rows rws.
EmbeddingLengths(rws) == { Len(JSONParse(rws[i].embedding)) : i \in 1..Len(rws) }

\* C28.  From an empty dataset, after any sequence of store and delete calls
\* with embeddings of any length, all persisted embeddings have one length: a
\* store whose embedding differs in length from an existing record throws and
\* writes nothing.
EmbeddingsOfOneLength ==
    /\ Cardinality(EmbeddingLengths(rows)) <= 1
    /\ ( /\ last.op = "store"
         /\ EmbeddingLengths(last.pre) \ {Len(last.args.embedding)} # {} )
       => /\ ~last.ok
          /\ last.error.kind = "Vector dimension mismatch"
          /\ rows = last.pre

\* A store of the configured length has been refused by a dataset of records
\* of another length.
RefusedByOtherLength ==
    /\ last.op = "store"
    /\ ~last.ok
    /\ Len(last.args.embedding) = dimension
    /\ EmbeddingLengths(rows) = {OpenAIDimension}
    /\ dimension # OpenAIDimension

\* C29.  memory_forget called with a non-empty id and a query deletes by id
\* only: no search and no deletion by query runs, at most the record with
\* that id is removed, and the call reports mode "id" and deleted = 1 whether
\* or not there was such a record.
ForgetWithBothDeletesById ==
    ( /\ last.op = "memory_forget"
      /\ last.args.id # None
      /\ last.args.query \notin {Undefined, ""} )
    => /\ last.ok
       /\ last.result = [deleted |-> 1, mode |-> "id"]
       /\ rows = DeleteRow(last.pre, last.args.id[1])
       /\ Len(last.pre) - Len(rows) \in {0, 1}

\* memory_forget with both arguments has named an id that no record has and a
\* query that a record matches, and that record is still there.
ForgotByIdDespiteQuery ==
    /\ last.op = "memory_forget"
    /\ last.ok
    /\ last.args.id # None
    /\ last.args.query = "q"
    /\ ~last.args.raw.fails
    /\ last.args.id[1] \notin Ids(last.pre)
    /\ Matching(rows, last.args.raw.embedding, last.args.threshold) # {}

====
